---------------------------- MODULE Spec2Model ----------------------------
(***************************************************************************)
(* A model of package koblitz (sammyne/secp256k1): the Koblitz curve       *)
(* y^2 = x^3 + 7 with Jacobian point arithmetic, NAF recoding, the         *)
(* endomorphism-accelerated ScalarMult, the table-driven ScalarBaseMult    *)
(* and the once-only initialisation behind S256().                         *)
(*                                                                         *)
(* TLC's integers are 32 bits wide, so the 256-bit curve parameters that   *)
(* initS256 sets are replaced by those of a 16-bit curve of the same       *)
(* shape: a = 0, b = 7, P = 3 (mod 4), P = 1 (mod 3), prime order N < P,   *)
(* cofactor 1, a cube root of unity lambda mod N with its matching beta    *)
(* mod P, and a short lattice basis (a1, b1), (a2, b2) derived with the    *)
(* same extended-Euclid procedure and of the same form (a1 = b2, b1 < 0,   *)
(* a2 = a1 - b1).  Field values are 2 bytes wide instead of 32, and the    *)
(* byte-point table has 2 windows instead of 32.  Bytes stay 8 bits wide,  *)
(* so NAF is modelled exactly.                                             *)
(***************************************************************************)
EXTENDS Integers, Sequences, FiniteSets, TLC

VARIABLES
    naf,        \* one call of NAF: its argument and its two results
    grp,        \* one call of a group operation: arguments and result
    sm,         \* one call of ScalarMult / ScalarBaseMult: the locals
    lin,        \* three ScalarMult calls and the Add that combines them
    once,       \* initonce (sync.Once) and the package variable secp256k1
    gor,        \* the goroutines calling S256() and the curve operations
    shared      \* the curve state that every caller shares after init

vars == <<naf, grp, sm, lin, once, gor, shared>>

-----------------------------------------------------------------------------
(* Curve parameters, set by initS256 (scaled to 16 bits, see above).       *)

P == 39607
N == 39217
B == 7
Gx == 1
Gy == 2171
BitSize == 16
H == 1
lambda == 907
beta == 20259
a1 == 43
b1 == 0 - 173
a2 == 216
b2 == 43

\* secp256k1.byteSize = secp256k1.BitSize / 8
byteSize == BitSize \div 8

-----------------------------------------------------------------------------
(* The(S) is the element of a one-element set S.  An intermediate result   *)
(* that later steps use more than once is bound as                         *)
(*     The({e : x \in {v}}),                                               *)
(* which is e with x standing for the value of v: v is computed once,      *)
(* before e, as the statement that assigns it runs once before the         *)
(* statements that read it.                                                *)

The(S) == CHOOSE x \in S : TRUE

-----------------------------------------------------------------------------
(* Byte strings and big integers (math/big).                               *)

Byte == 0..255

\* big.Int.SetBytes: the big-endian value of a byte string
RECURSIVE SetBytes(_)
SetBytes(b) ==
    IF Len(b) = 0 THEN 0
    ELSE 256 * SetBytes(SubSeq(b, 1, Len(b) - 1)) + b[Len(b)]

\* big.Int.Bytes: the minimal big-endian byte string of n >= 0 (empty for 0)
RECURSIVE Bytes(_)
Bytes(n) ==
    IF n = 0 THEN << >>
    ELSE Append(Bytes(n \div 256), n % 256)

\* big.Int.Sign
Sign(n) == IF n < 0 THEN 0 - 1 ELSE IF n = 0 THEN 0 ELSE 1

Abs(n) == IF n < 0 THEN 0 - n ELSE n


-----------------------------------------------------------------------------
(* fieldVal: a residue mod P with lazy reduction.  A field value is held   *)
(* as a natural number that may exceed P until Normalize brings it back to *)
(* its canonical form; Equals and IsZero compare the stored form, so they  *)
(* are meaningful on normalised operands only.                             *)

\* fieldVal.Normalize
Normalize(f) == f % P

\* fieldVal.SetInt / Set
SetInt(n) == n

\* fieldVal.Add, Add2, AddInt: no reduction
FAdd(f, g) == f + g

\* fieldVal.Negate(magnitude), NegateVal: (magnitude+1)*P - f
Negate(f, magnitude) == (magnitude + 1) * P - f

\* fieldVal.Mul, Mul2: the product, of magnitude 1
Mul2(f, g) == ((f % P) * (g % P)) % P

\* fieldVal.Square, SquareVal
SquareVal(f) == Mul2(f, f)

\* fieldVal.MulInt: multiplication by a small integer, no reduction
MulInt(f, n) == f * n

\* fieldVal.Equals
Equals(f, g) == f = g

\* fieldVal.IsZero
IsZero(f) == f = 0

\* f^r mod P for 0 <= r < 16
FPowDigit(f, r) ==
    LET f2 == (f * f) % P
        f4 == (f2 * f2) % P
        f8 == (f4 * f4) % P
        m1 == IF r % 2 = 1 THEN f ELSE 1
        m2 == IF (r \div 2) % 2 = 1 THEN (m1 * f2) % P ELSE m1
        m4 == IF (r \div 4) % 2 = 1 THEN (m2 * f4) % P ELSE m2
    IN  IF (r \div 8) % 2 = 1 THEN (m4 * f8) % P ELSE m4

\* f^e mod P, for 0 <= f < P, by squaring and multiplying, 4 bits of e at a time
RECURSIVE FPow(_, _)
FPow(f, e) ==
    IF e < 16 THEN FPowDigit(f, e)
    ELSE The({(FPowDigit(h4, 4) * FPowDigit(f, e % 16)) % P :
                 h4 \in {FPowDigit(h, 4) : h \in {FPow(f, e \div 16)}}})

\* fieldVal.Inverse: f^(P-2), so the inverse of 0 is 0
Inverse(f) == The({FPow(g, P - 2) : g \in {f % P}})

\* fieldVal.SetByteSlice: a big-endian byte string of at most byteSize bytes
SetByteSlice(b) == SetBytes(b)

\* fieldVal.Bytes: the fixed-width big-endian bytes of a normalised value
FieldBytes(f) == [i \in 1..byteSize |-> (f \div (256 ^ (byteSize - i))) % 256]

-----------------------------------------------------------------------------
(* NAF (koblitz_internal.go 246-314).                                      *)

\* retPos[i+1] += 1 << j on a []byte (0-based index i+1 is 1-based i+2)
AddBit(ret, idx, j) == [ret EXCEPT ![idx] = (@ + 2 ^ j) % 256]

\* nextIsOne with the look-ahead across a byte boundary left out: at j = 7 the
\* next bit is taken to be 0 whatever k[i-1] holds
NextIsOneSameByte(k, i, j, curByte) ==
    IF j = 7 THEN FALSE ELSE (curByte \div 2) % 2 = 1

\* nextIsOne as computed at lines 265-273; i is the 0-based byte index
NextIsOne(k, i, j, curByte) ==
    IF j = 7
    THEN IF i = 0 THEN FALSE ELSE k[i] % 2 = 1
    ELSE (curByte \div 2) % 2 = 1

\* The loop body with line 299 (carry = true) left out
NAFBitNoCarry(k, i, j, st) ==
    LET curIsOne == st.curByte % 2 = 1
        nextIsOne == NextIsOne(k, i, j, st.curByte)
        shifted == st.curByte \div 2
    IN  IF st.carry
        THEN IF curIsOne
             THEN [st EXCEPT !.curByte = shifted]
             ELSE IF nextIsOne
                  THEN [st EXCEPT !.retNeg = AddBit(@, i + 2, j),
                                  !.curByte = shifted]
                  ELSE [st EXCEPT !.carry = FALSE,
                                  !.retPos = AddBit(@, i + 2, j),
                                  !.curByte = shifted]
        ELSE IF curIsOne
             THEN IF nextIsOne
                  THEN [st EXCEPT !.retNeg = AddBit(@, i + 2, j),
                                  !.curByte = shifted]
                  ELSE [st EXCEPT !.retPos = AddBit(@, i + 2, j),
                                  !.curByte = shifted]
             ELSE [st EXCEPT !.curByte = shifted]

\* One pass of the inner loop body (lines 264-306) for bit j of byte i.
NAFBit(k, i, j, st) ==
    LET curIsOne == st.curByte % 2 = 1
        nextIsOne == NextIsOne(k, i, j, st.curByte)
        shifted == st.curByte \div 2
    IN  IF st.carry
        THEN IF curIsOne
             THEN [st EXCEPT !.curByte = shifted]
             ELSE IF nextIsOne
                  THEN [st EXCEPT !.retNeg = AddBit(@, i + 2, j),
                                  !.curByte = shifted]
                  ELSE [st EXCEPT !.carry = FALSE,
                                  !.retPos = AddBit(@, i + 2, j),
                                  !.curByte = shifted]
        ELSE IF curIsOne
             THEN IF nextIsOne
                  THEN [st EXCEPT !.retNeg = AddBit(@, i + 2, j),
                                  !.carry = TRUE,
                                  !.curByte = shifted]
                  ELSE [st EXCEPT !.retPos = AddBit(@, i + 2, j),
                                  !.curByte = shifted]
             ELSE [st EXCEPT !.curByte = shifted]

\* Pass n (n = 0, 1, ...) of the two nested loops (lines 261-308): it handles
\* bit j = n % 8 of byte i = len(k)-1 - n \div 8, and curByte := k[i]
\* (line 262) precedes the pass for j = 0.
NAFPass(k, n, st) ==
    LET i == Len(k) - 1 - (n \div 8)
        j == n % 8
    IN  The({NAFBit(k, i, j, cur) :
                cur \in {IF j = 0 THEN [st EXCEPT !.curByte = k[i + 1]] ELSE st}})

\* Passes lo .. hi-1 in order, from the loop state st
RECURSIVE NAFLoop(_, _, _, _)
NAFLoop(k, lo, hi, st) ==
    IF hi - lo = 0 THEN st
    ELSE IF hi - lo = 1 THEN NAFPass(k, lo, st)
    ELSE The({The({NAFLoop(k, mid, hi, left) :
                      left \in {NAFLoop(k, lo, mid, st)}}) :
                 mid \in {(lo + hi) \div 2}})

\* NAF(k): the pair (pos, neg)
NAF(k) ==
    LET zero == [x \in 1..(Len(k) + 1) |-> 0]
    IN  The({IF st.carry
             THEN [pos |-> [st.retPos EXCEPT ![1] = 1], neg |-> st.retNeg]
             ELSE [pos |-> Tail(st.retPos), neg |-> Tail(st.retNeg)] :
                st \in {NAFLoop(k, 0, 8 * Len(k),
                                [carry |-> FALSE, curByte |-> 0,
                                 retPos |-> zero, retNeg |-> zero])}})

-----------------------------------------------------------------------------
(* Jacobian point arithmetic.  Every routine returns the triple it stores  *)
(* in (x3, y3, z3), the branch it took (path), and the values it leaves in *)
(* the operands it normalises or overwrites in place.                      *)

\* a - b mod P
FSub(f, g) == ((f % P) + P - (g % P)) % P

\* doubleJacobian: doubling for a = 0; Y = 0 gives the point at infinity
doubleJacobian(x1, y1, z1) ==
    IF IsZero(y1)
    THEN [x3 |-> SetInt(0), y3 |-> SetInt(0), z3 |-> SetInt(0), path |-> "dblInf"]
    ELSE LET a == SquareVal(x1)
             b == SquareVal(y1)
             c == SquareVal(b)
             d == Mul2(2, FSub(FSub(SquareVal(FAdd(x1, b)), a), c))
             e == Mul2(3, a)
             f == SquareVal(e)
             x3 == FSub(f, Mul2(2, d))
             y3 == FSub(Mul2(e, FSub(d, x3)), Mul2(8, c))
             z3 == Mul2(2, Mul2(y1, z1))
         IN  [x3 |-> x3, y3 |-> y3, z3 |-> z3, path |-> "dbl"]

\* addZ1EqualsZ2 with the comparison of Y at line 33 left out: equal X always
\* goes to doubleJacobian
addZ1EqualsZ2AlwaysDouble(x1, y1, z1, x2, y2) ==
    LET nx1 == Normalize(x1)
        ny1 == Normalize(y1)
        nx2 == Normalize(x2)
        ny2 == Normalize(y2)
        ops == [x1n |-> nx1, y1n |-> ny1, x2n |-> nx2, y2n |-> ny2]
        a == FAdd(Negate(nx1, 1), nx2)
        c == FAdd(Negate(ny1, 1), ny2)
        e == Mul2(nx1, SquareVal(a))
        f == Mul2(nx2, SquareVal(a))
        x3 == FAdd(Negate(FAdd(e, f), 3), SquareVal(c))
        y3 == FAdd(Negate(Mul2(ny1, FAdd(f, Negate(e, 1))), 3),
                   Mul2(FAdd(e, Normalize(Negate(x3, 5))), c))
    IN  IF Equals(nx1, nx2)
        THEN ops @@ [doubleJacobian(nx1, ny1, z1) EXCEPT !.path = "eqZdouble"]
        ELSE ops @@ [x3 |-> Normalize(x3), y3 |-> Normalize(y3),
                     z3 |-> Mul2(z1, a), path |-> "eqZchord"]

\* addZ1EqualsZ2 with the doubling of lines 33-39 left out: equal X always
\* gives the point at infinity
addZ1EqualsZ2NoDouble(x1, y1, z1, x2, y2) ==
    LET nx1 == Normalize(x1)
        ny1 == Normalize(y1)
        nx2 == Normalize(x2)
        ny2 == Normalize(y2)
        ops == [x1n |-> nx1, y1n |-> ny1, x2n |-> nx2, y2n |-> ny2]
        a == FAdd(Negate(nx1, 1), nx2)
        c == FAdd(Negate(ny1, 1), ny2)
        e == Mul2(nx1, SquareVal(a))
        f == Mul2(nx2, SquareVal(a))
        x3 == FAdd(Negate(FAdd(e, f), 3), SquareVal(c))
        y3 == FAdd(Negate(Mul2(ny1, FAdd(f, Negate(e, 1))), 3),
                   Mul2(FAdd(e, Normalize(Negate(x3, 5))), c))
    IN  IF Equals(nx1, nx2)
        THEN ops @@ [x3 |-> SetInt(0), y3 |-> SetInt(0), z3 |-> SetInt(0),
                     path |-> "eqZinf"]
        ELSE ops @@ [x3 |-> Normalize(x3), y3 |-> Normalize(y3),
                     z3 |-> Mul2(z1, a), path |-> "eqZchord"]

\* addZ1EqualsZ2 with the four Normalize calls of lines 28-31 left out: the
\* comparisons of lines 32-33 see the operands as they were passed
addZ1EqualsZ2RawCompare(x1, y1, z1, x2, y2) ==
    LET ops == [x1n |-> x1, y1n |-> y1, x2n |-> x2, y2n |-> y2]
        a == FAdd(Negate(x1, 1), x2)
        c == FAdd(Negate(y1, 1), y2)
        e == Mul2(x1, SquareVal(a))
        f == Mul2(x2, SquareVal(a))
        x3 == FAdd(Negate(FAdd(e, f), 3), SquareVal(c))
        y3 == FAdd(Negate(Mul2(y1, FAdd(f, Negate(e, 1))), 3),
                   Mul2(FAdd(e, Normalize(Negate(x3, 5))), c))
    IN  IF Equals(x1, x2)
        THEN IF Equals(y1, y2)
             THEN ops @@ [doubleJacobian(x1, y1, z1) EXCEPT !.path = "eqZdouble"]
             ELSE ops @@ [x3 |-> SetInt(0), y3 |-> SetInt(0), z3 |-> SetInt(0),
                          path |-> "eqZinf"]
        ELSE ops @@ [x3 |-> Normalize(x3), y3 |-> Normalize(y3),
                     z3 |-> Mul2(z1, a), path |-> "eqZchord"]

\* addZ1EqualsZ2 (lines 10-72).  The operands are normalised in place
\* (lines 28-31); x1n .. y2n are the values left in them.  When the caller
\* passes the same fieldVal as x1 and x3 (ScalarMult, ScalarBaseMult), line 63
\* overwrites x1, which no later line reads.
addZ1EqualsZ2(x1, y1, z1, x2, y2) ==
    LET nx1 == Normalize(x1)
        ny1 == Normalize(y1)
        nx2 == Normalize(x2)
        ny2 == Normalize(y2)
        ops == [x1n |-> nx1, y1n |-> ny1, x2n |-> nx2, y2n |-> ny2]
    IN  IF Equals(nx1, nx2)
        THEN IF Equals(ny1, ny2)
             THEN ops @@ [doubleJacobian(nx1, ny1, z1) EXCEPT
                            !.path = "eqZdouble"]
             ELSE ops @@ [x3 |-> SetInt(0), y3 |-> SetInt(0), z3 |-> SetInt(0),
                          path |-> "eqZinf"]
        ELSE LET negX1 == Negate(nx1, 1)
                 negY1 == Negate(ny1, 1)
                 a == FAdd(negX1, nx2)
                 b == SquareVal(a)
                 c == FAdd(negY1, ny2)
                 d == SquareVal(c)
                 e == Mul2(nx1, b)
                 negE == Negate(e, 1)
                 f == Mul2(nx2, b)
                 x3 == FAdd(Negate(FAdd(e, f), 3), d)
                 negX3 == Normalize(Negate(x3, 5))
                 y3a == Negate(Mul2(ny1, FAdd(f, negE)), 3)
                 y3 == FAdd(y3a, Mul2(FAdd(e, negX3), c))
                 z3 == Mul2(z1, a)
             IN  ops @@ [x3 |-> Normalize(x3), y3 |-> Normalize(y3), z3 |-> z3,
                         path |-> "eqZchord"]

\* The general Jacobian addition formula, with equal affine X detected
addGeneric(x1, y1, z1, x2, y2, z2) ==
    LET z1z1 == SquareVal(z1)
        z2z2 == SquareVal(z2)
        u1 == Mul2(x1, z2z2)
        u2 == Mul2(x2, z1z1)
        s1 == Mul2(Mul2(y1, z2), z2z2)
        s2 == Mul2(Mul2(y2, z1), z1z1)
    IN  IF Equals(u1, u2)
        THEN IF Equals(s1, s2)
             THEN [doubleJacobian(x1, y1, z1) EXCEPT !.path = "genDouble"]
             ELSE [x3 |-> SetInt(0), y3 |-> SetInt(0), z3 |-> SetInt(0),
                   path |-> "genInf"]
        ELSE LET h == FSub(u2, u1)
                 i == SquareVal(Mul2(2, h))
                 j == Mul2(h, i)
                 r == Mul2(2, FSub(s2, s1))
                 v == Mul2(u1, i)
                 x3 == FSub(FSub(SquareVal(r), j), Mul2(2, v))
                 y3 == FSub(Mul2(r, FSub(v, x3)), Mul2(2, Mul2(s1, j)))
                 z3 == Mul2(FSub(FSub(SquareVal(FAdd(z1, z2)), z1z1), z2z2), h)
             IN  [x3 |-> x3, y3 |-> y3, z3 |-> z3, path |-> "generic"]

\* addJacobian: Z = 0 is the identity; equal Z goes to addZ1EqualsZ2
addJacobian(x1, y1, z1, x2, y2, z2) ==
    LET same == [x1n |-> x1, y1n |-> y1, x2n |-> x2, y2n |-> y2]
    IN  IF IsZero(z1)
        THEN same @@ [x3 |-> x2, y3 |-> y2, z3 |-> z2, path |-> "z1zero"]
        ELSE IF IsZero(z2)
        THEN same @@ [x3 |-> x1, y3 |-> y1, z3 |-> z1, path |-> "z2zero"]
        ELSE IF Equals(z1, z2)
        THEN addZ1EqualsZ2(x1, y1, z1, x2, y2)
        ELSE same @@ addGeneric(x1, y1, z1, x2, y2, z2)

-----------------------------------------------------------------------------
(* Affine / Jacobian conversion (lines 76-109).                            *)

\* bigAffineToField: x.Bytes() and y.Bytes() loaded into fresh field values
bigAffineToField(x, y) == <<SetByteSlice(Bytes(x)), SetByteSlice(Bytes(y))>>

\* fieldJacobianToBigAffine working on copies: lines 96-102 applied to fresh
\* field values, so that the arguments x, y, z keep what they held
fieldJacobianToBigAffineOnCopies(x, y, z) ==
    The({LET tempZ == SquareVal(zInv)
             xn == Normalize(Mul2(x, tempZ))
             yn == Normalize(Mul2(y, Mul2(tempZ, zInv)))
         IN  [x3 |-> SetBytes(FieldBytes(xn)), y3 |-> SetBytes(FieldBytes(yn)),
              x |-> x, y |-> y, z |-> z] :
            zInv \in {Inverse(z)}})

\* fieldJacobianToBigAffine: the affine big integers (x3, y3), and the values
\* left in the arguments x, y, z, which lines 96-102 overwrite
fieldJacobianToBigAffine(x, y, z) ==
    The({LET tempZ == SquareVal(zInv)
             xm == Mul2(x, tempZ)
             ym == Mul2(y, Mul2(tempZ, zInv))
             xn == Normalize(xm)
             yn == Normalize(ym)
         IN  [x3 |-> SetBytes(FieldBytes(xn)), y3 |-> SetBytes(FieldBytes(yn)),
              x |-> xn, y |-> yn, z |-> SetInt(1)] :
            zInv \in {Inverse(z)}})

-----------------------------------------------------------------------------
(* The elliptic.Curve interface: Add, Double, IsOnCurve (lines 180-232).   *)

\* Add; jac is the Jacobian triple handed to fieldJacobianToBigAffine
AddTrace(x1, y1, x2, y2) ==
    IF Sign(x1) = 0 /\ Sign(y1) = 0
    THEN [ret |-> <<x2, y2>>, jac |-> << >>, path |-> "ret2"]
    ELSE IF Sign(x2) = 0 /\ Sign(y2) = 0
    THEN [ret |-> <<x1, y1>>, jac |-> << >>, path |-> "ret1"]
    ELSE The({The({[ret |-> <<q.x3, q.y3>>, jac |-> <<r.x3, r.y3, r.z3>>,
                    path |-> r.path] :
                      q \in {fieldJacobianToBigAffine(r.x3, r.y3, r.z3)}}) :
                 r \in {addJacobian(f1[1], f1[2], SetInt(1),
                                    f2[1], f2[2], SetInt(1)) :
                           f1 \in {bigAffineToField(x1, y1)},
                           f2 \in {bigAffineToField(x2, y2)}}})

\* Add with the operands of the two early returns (lines 184, 187) exchanged
AddWrongIdentity(x1, y1, x2, y2) ==
    IF Sign(x1) = 0 /\ Sign(y1) = 0 THEN <<x1, y1>>
    ELSE IF Sign(x2) = 0 /\ Sign(y2) = 0 THEN <<x2, y2>>
    ELSE AddTrace(x1, y1, x2, y2).ret

Add(x1, y1, x2, y2) == AddTrace(x1, y1, x2, y2).ret

\* Double
Double(x1, y1) ==
    IF Sign(y1) = 0
    THEN <<0, 0>>
    ELSE The({<<q.x3, q.y3>> :
                 q \in {fieldJacobianToBigAffine(r.x3, r.y3, r.z3) :
                           r \in {doubleJacobian(f1[1], f1[2], SetInt(1)) :
                                     f1 \in {bigAffineToField(x1, y1)}}}})

\* IsOnCurve: y^2 = x^3 + 7
IsOnCurve(x, y) ==
    The({LET y2 == Normalize(SquareVal(f[2]))
             result == Normalize(FAdd(Mul2(SquareVal(f[1]), f[1]), B))
         IN  Equals(y2, result) :
            f \in {bigAffineToField(x, y)}})

-----------------------------------------------------------------------------
(* The group law on affine points, as the textbook states it; (0, 0)       *)
(* stands for the point at infinity.                                       *)

Infinity == <<0, 0>>

RefNeg(p) == IF p = Infinity THEN Infinity ELSE <<p[1], (P - p[2]) % P>>

RefAdd(p, q) ==
    IF p = Infinity THEN q
    ELSE IF q = Infinity THEN p
    ELSE IF p[1] = q[1] /\ (p[2] + q[2]) % P = 0 THEN Infinity
    ELSE The({The({<<x, FSub(Mul2(l, FSub(p[1], x)), p[2])>> :
                      x \in {FSub(FSub(SquareVal(l), p[1]), q[1])}}) :
                 l \in {IF p[1] = q[1]
                        THEN Mul2(Mul2(3, SquareVal(p[1])),
                                  Inverse(Mul2(2, p[2])))
                        ELSE Mul2(FSub(q[2], p[2]),
                                  Inverse(FSub(q[1], p[1])))}})

\* n * p for an integer n (negative n multiplies the negated point)
RECURSIVE RefMul(_, _)
RefMul(n, p) ==
    IF n < 0 THEN RefMul(0 - n, RefNeg(p))
    ELSE IF n = 0 THEN Infinity
    ELSE The({RefAdd(d4, r) :
                 d4 \in {RefAdd(d2, d2) :
                            d2 \in {RefAdd(h, h) :
                                       h \in {RefMul(n \div 4, p)}}},
                 r \in {RefAdd(r2, IF n % 2 = 1 THEN p ELSE Infinity) :
                           r2 \in {IF (n \div 2) % 2 = 1 THEN RefAdd(p, p)
                                   ELSE Infinity}}})

\* The affine point a Jacobian triple represents
AffineOf(x, y, z) ==
    IF z % P = 0 THEN Infinity
    ELSE The({<<Mul2(x, SquareVal(zInv)),
                 Mul2(y, Mul2(SquareVal(zInv), zInv))>> :
                 zInv \in {Inverse(z)}})

-----------------------------------------------------------------------------
(* The curve state that initS256 builds (lines 467-512).                   *)

\* The byte-point table loaded by loadS256BytePoints, as a sequence of
\* windows: the entry for byte b of the w-th window (w = 1 the most significant)
\* represents b * 256^(byteSize-w) * G with Z = 1; the entries for b = 0 are
\* all zero.
bytePoints ==
    [w \in 1..byteSize |->
        [b \in Byte |->
            IF b = 0 THEN <<0, 0, 0>>
            ELSE The({<<q[1], q[2], 1>> :
                         q \in {RefMul(b * 256 ^ (byteSize - w), <<Gx, Gy>>)}})]]

\* var secp256k1 KoblitzCurve: the zero value, before initS256 has run
curveZero ==
    [P |-> 0, N |-> 0, B |-> 0, Gx |-> 0, Gy |-> 0, BitSize |-> 0, q |-> 0,
     H |-> 0, halfOrder |-> 0, byteSize |-> 0, bytePoints |-> << >>,
     lambda |-> 0, beta |-> 0, a1 |-> 0, b1 |-> 0, a2 |-> 0, b2 |-> 0]

\* The statements of initS256 in order, each named by what it assigns
InitFields ==
    <<"CurveParams", "P", "N", "B", "Gx", "Gy", "BitSize", "q", "H",
      "halfOrder", "byteSize", "bytePoints", "lambda", "beta",
      "a1", "b1", "a2", "b2">>

\* The n-th statement of initS256 applied to the curve
InitS256Statement(curve, n) ==
    LET f == InitFields[n]
    IN  CASE f = "CurveParams" ->
               [curve EXCEPT !.P = 0, !.N = 0, !.B = 0, !.Gx = 0, !.Gy = 0,
                             !.BitSize = 0]
          [] f = "P" -> [curve EXCEPT !.P = P]
          [] f = "N" -> [curve EXCEPT !.N = N]
          [] f = "B" -> [curve EXCEPT !.B = B]
          [] f = "Gx" -> [curve EXCEPT !.Gx = Gx]
          [] f = "Gy" -> [curve EXCEPT !.Gy = Gy]
          [] f = "BitSize" -> [curve EXCEPT !.BitSize = BitSize]
          [] f = "q" -> [curve EXCEPT !.q = (curve.P + 1) \div 4]
          [] f = "H" -> [curve EXCEPT !.H = H]
          [] f = "halfOrder" -> [curve EXCEPT !.halfOrder = curve.N \div 2]
          [] f = "byteSize" -> [curve EXCEPT !.byteSize = curve.BitSize \div 8]
          [] f = "bytePoints" -> [curve EXCEPT !.bytePoints = bytePoints]
          [] f = "lambda" -> [curve EXCEPT !.lambda = lambda]
          [] f = "beta" -> [curve EXCEPT !.beta = beta]
          [] f = "a1" -> [curve EXCEPT !.a1 = a1]
          [] f = "b1" -> [curve EXCEPT !.b1 = b1]
          [] f = "a2" -> [curve EXCEPT !.a2 = a2]
          [] f = "b2" -> [curve EXCEPT !.b2 = b2]

\* The first n statements of initS256 run on the curve
RECURSIVE InitS256Run(_, _)
InitS256Run(curve, n) ==
    IF n = 0 THEN curve
    ELSE The({InitS256Statement(c, n) : c \in {InitS256Run(curve, n - 1)}})

\* secp256k1 after initS256 has run
initS256 == InitS256Run(curveZero, Len(InitFields))

-----------------------------------------------------------------------------
(* Scalar reduction and the endomorphism split.                            *)

\* moduloReduce: the scalar reduced into [0, N), as big-endian bytes
moduloReduce(k) == Bytes(SetBytes(k) % N)

\* The integer nearest to a / n, n > 0
RoundDiv(a, n) == (2 * a + n) \div (2 * n)

\* splitK: k = k1 + k2 * lambda (mod N), as magnitudes and signs.  c1 and c2
\* are the roundings of b2*k/N and -b1*k/N; e1 and e2 are the errors of the
\* two roundings (0 for rounding to nearest).
splitK(k, e1, e2) ==
    LET bigIntK == SetBytes(k)
        c1 == RoundDiv(b2 * bigIntK, N) + e1
        c2 == RoundDiv((0 - b1) * bigIntK, N) + e2
        k1 == bigIntK - c1 * a1 - c2 * a2
        k2 == 0 - (c1 * b1 + c2 * b2)
    IN  [k1 |-> Bytes(Abs(k1)), k2 |-> Bytes(Abs(k2)),
         signK1 |-> Sign(k1), signK2 |-> Sign(k2)]

-----------------------------------------------------------------------------
(* ScalarMult (lines 318-418).  The locals of one call are a record; the   *)
(* combing loop is taken one bit position at a time.                       *)

\* Line 336 with Add2 written for Mul2
EndomorphismXAdd(p1x) == FAdd(p1x, beta)

\* Line 336, p2x := new(fieldVal).Mul2(p1x, curve.beta)
EndomorphismX(p1x) == Mul2(p1x, beta)

\* Lines 320-366: the locals on entry to the loop, for the split sp
ScalarMultSetup(Bx, By, sp) ==
    The({LET p1x == f[1]
             p1y == f[2]
             p1yNeg == Negate(p1y, 1)
             p2x == EndomorphismX(p1x)
             p2y == p1y
             p2yNeg == Negate(p2y, 1)
             k1Len == Len(n1.pos)
             k2Len == Len(n2.pos)
         IN  [qx |-> SetInt(0), qy |-> SetInt(0), qz |-> SetInt(0),
              p1x |-> p1x,
              p1y |-> IF sp.signK1 = 0 - 1 THEN p1yNeg ELSE p1y,
              p1yNeg |-> IF sp.signK1 = 0 - 1 THEN p1y ELSE p1yNeg,
              p1z |-> SetInt(1),
              p2x |-> p2x,
              p2y |-> IF sp.signK2 = 0 - 1 THEN p2yNeg ELSE p2y,
              p2yNeg |-> IF sp.signK2 = 0 - 1 THEN p2y ELSE p2yNeg,
              p2z |-> SetInt(1),
              k1PosNAF |-> n1.pos, k1NegNAF |-> n1.neg,
              k2PosNAF |-> n2.pos, k2NegNAF |-> n2.neg,
              k1Len |-> k1Len, k2Len |-> k2Len,
              m |-> IF k1Len < k2Len THEN k2Len ELSE k1Len,
              i |-> 0, j |-> 7,
              k1BytePos |-> 0, k1ByteNeg |-> 0,
              k2BytePos |-> 0, k2ByteNeg |-> 0,
              doublings |-> 0] :
            f \in {bigAffineToField(Bx, By)},
            n1 \in {NAF(sp.k1)},
            n2 \in {NAF(sp.k2)}})

\* Lines 375-388 with the padding at the back: the shorter NAF is read from
\* its first byte at i = 0
LoadBytesBackPadded(s) ==
    [s EXCEPT
      !.k1BytePos = IF s.i < s.k1Len THEN s.k1PosNAF[s.i + 1] ELSE 0,
      !.k1ByteNeg = IF s.i < s.k1Len THEN s.k1NegNAF[s.i + 1] ELSE 0,
      !.k2BytePos = IF s.i < s.k2Len THEN s.k2PosNAF[s.i + 1] ELSE 0,
      !.k2ByteNeg = IF s.i < s.k2Len THEN s.k2NegNAF[s.i + 1] ELSE 0]

\* Lines 375-388: the bytes of outer iteration i, the shorter NAF padded in front
LoadBytes(s) ==
    LET pad1 == s.m - s.k1Len
        pad2 == s.m - s.k2Len
    IN  [s EXCEPT
          !.k1BytePos = IF s.i < pad1 THEN 0 ELSE s.k1PosNAF[s.i - pad1 + 1],
          !.k1ByteNeg = IF s.i < pad1 THEN 0 ELSE s.k1NegNAF[s.i - pad1 + 1],
          !.k2BytePos = IF s.i < pad2 THEN 0 ELSE s.k2PosNAF[s.i - pad2 + 1],
          !.k2ByteNeg = IF s.i < pad2 THEN 0 ELSE s.k2NegNAF[s.i - pad2 + 1]]

\* curve.addJacobian(qx, qy, qz, px, py, pz, qx, qy, qz): the sum replaces Q,
\* and the operand fields named px, py keep what the addition leaves in them
AddInto(s, px, py, pz) ==
    The({[s EXCEPT !.qx = r.x3, !.qy = r.y3, !.qz = r.z3,
                   ![px] = r.x2n, ![py] = r.y2n] :
            r \in {addJacobian(s.qx, s.qy, s.qz, s[px], s[py], s[pz])}})

\* byte & 0x80 == 0x80
TopBit(b) == b >= 128

\* Line 392, curve.doubleJacobian(qx, qy, qz, qx, qy, qz); doublings counts
\* the passes made
DoubleInto(s) ==
    The({[s EXCEPT !.qx = d.x3, !.qy = d.y3, !.qz = d.z3, !.doublings = @ + 1] :
            d \in {doubleJacobian(s.qx, s.qy, s.qz)}})

\* Lines 394-400: the digit of k1 at this position
AddDigitK1(s) ==
    IF TopBit(s.k1BytePos) THEN AddInto(s, "p1x", "p1y", "p1z")
    ELSE IF TopBit(s.k1ByteNeg) THEN AddInto(s, "p1x", "p1yNeg", "p1z")
    ELSE s

\* Lines 402-408: the digit of k2 at this position
AddDigitK2(s) ==
    IF TopBit(s.k2BytePos) THEN AddInto(s, "p2x", "p2y", "p2z")
    ELSE IF TopBit(s.k2ByteNeg) THEN AddInto(s, "p2x", "p2yNeg", "p2z")
    ELSE s

\* Lines 409-412, and the step of the two loop counters (j--, then i++)
ShiftBytes(s) ==
    [s EXCEPT !.k1BytePos = (@ * 2) % 256,
              !.k1ByteNeg = (@ * 2) % 256,
              !.k2BytePos = (@ * 2) % 256,
              !.k2ByteNeg = (@ * 2) % 256,
              !.i = IF s.j = 0 THEN @ + 1 ELSE @,
              !.j = IF s.j = 0 THEN 7 ELSE @ - 1]

\* Lines 391-412: one pass of the inner loop, preceded by lines 375-388 when
\* the pass is the first of its byte
CombStep(s) ==
    The({ShiftBytes(q2) :
            q2 \in {AddDigitK2(q1) :
                      q1 \in {AddDigitK1(q0) :
                                q0 \in {DoubleInto(l) :
                                          l \in {IF s.j = 7 THEN LoadBytes(s)
                                                 ELSE s}}}}})

\* n passes of the inner loop in order, from the locals s
RECURSIVE CombRun(_, _)
CombRun(s, n) ==
    IF n = 0 THEN s
    ELSE IF n = 1 THEN CombStep(s)
    ELSE The({CombRun(left, n - n \div 2) : left \in {CombRun(s, n \div 2)}})

\* The loop of lines 373-414 run to its end: 8 passes for each i < m
CombLoop(s) == CombRun(s, 8 * (s.m - s.i))

\* Line 417
ScalarMultReturn(s) ==
    The({<<r.x3, r.y3>> : r \in {fieldJacobianToBigAffine(s.qx, s.qy, s.qz)}})

\* ScalarMult(Bx, By, k), the two roundings of splitK being off by e1 and e2
ScalarMult(Bx, By, k, e1, e2) ==
    The({ScalarMultReturn(s) :
            s \in {CombLoop(s0) :
                     s0 \in {ScalarMultSetup(Bx, By, sp) :
                               sp \in {splitK(moduloReduce(k), e1, e2)}}}})

-----------------------------------------------------------------------------
(* ScalarBaseMult (lines 423-440).                                         *)

\* Line 436, p := curve.bytePoints[diff+i][byteVal]: the value of the array p
BytePointOperand(curve, w, byteVal) == curve.bytePoints[w + 1][byteVal]

\* Lines 424-428 with diff left at 0: the bytes of a short scalar index the
\* most significant windows
ScalarBaseMultSetupNoDiff(curve, k) ==
    LET newK == moduloReduce(k)
    IN  [newK |-> newK, diff |-> 0, i |-> 0,
         qx |-> SetInt(0), qy |-> SetInt(0), qz |-> SetInt(0)]

\* Lines 424-428
ScalarBaseMultSetup(curve, k) ==
    LET newK == moduloReduce(k)
    IN  [newK |-> newK, diff |-> Len(curve.bytePoints) - Len(newK), i |-> 0,
         qx |-> SetInt(0), qy |-> SetInt(0), qz |-> SetInt(0)]

\* Lines 435-438, one iteration: the new locals (st), and what the addition
\* leaves in the array p, which the equal-Z path normalises in place
ScalarBaseMultIter(curve, s) ==
    LET byteVal == s.newK[s.i + 1]
    IN  The({The({[st |-> [s EXCEPT !.qx = r.x3, !.qy = r.y3, !.qz = r.z3,
                                    !.i = @ + 1],
                   p |-> <<r.x2n, r.y2n, p[3]>>,
                   path |-> r.path] :
                     r \in {addJacobian(s.qx, s.qy, s.qz, p[1], p[2], p[3])}}) :
                p \in {BytePointOperand(curve, s.diff + s.i, byteVal)}})

RECURSIVE ScalarBaseMultLoop(_, _)
ScalarBaseMultLoop(curve, s) ==
    IF s.i < Len(s.newK)
    THEN The({ScalarBaseMultLoop(curve, nxt) :
                 nxt \in {ScalarBaseMultIter(curve, s).st}})
    ELSE s

\* ScalarBaseMult(k) on the initialised curve
ScalarBaseMult(k) ==
    The({<<r.x3, r.y3>> :
            r \in {fieldJacobianToBigAffine(s.qx, s.qy, s.qz) :
                      s \in {ScalarBaseMultLoop(initS256, s0) :
                                s0 \in {ScalarBaseMultSetup(initS256, k)}}}})

-----------------------------------------------------------------------------
(* Big-integer facts about byte strings that need no 32-bit arithmetic.    *)

\* The big-endian sum of two byte strings and a carry, by schoolbook addition
RECURSIVE AddBytes(_, _, _)
AddBytes(a, b, c) ==
    IF Len(a) = 0 /\ Len(b) = 0
    THEN IF c = 0 THEN << >> ELSE <<c>>
    ELSE LET x == IF Len(a) = 0 THEN 0 ELSE a[Len(a)]
             y == IF Len(b) = 0 THEN 0 ELSE b[Len(b)]
             ra == IF Len(a) = 0 THEN a ELSE SubSeq(a, 1, Len(a) - 1)
             rb == IF Len(b) = 0 THEN b ELSE SubSeq(b, 1, Len(b) - 1)
         IN  Append(AddBytes(ra, rb, (x + y + c) \div 256), (x + y + c) % 256)

\* A byte string without its leading zero bytes
RECURSIVE Strip(_)
Strip(b) == IF Len(b) > 0 /\ b[1] = 0 THEN Strip(Tail(b)) ELSE b

\* Bit t (t = 0 the least significant) of a big-endian byte string
BitAt(b, t) == (b[Len(b) - (t \div 8)] \div (2 ^ (t % 8))) % 2

\* Is the signed digit at position t of the pair (pos, neg) non-zero?
DigitSet(pos, neg, t) == BitAt(pos, t) = 1 \/ BitAt(neg, t) = 1

-----------------------------------------------------------------------------
(* SpecNAF: one call of NAF on each input of NafInputs.                    *)

\* The longest input of NAF
NafMaxLen == 3

\* Bytes that, next to any byte, give it both values of the carry coming in
\* and both values of the bit looked ahead at
NafSample == {0, 1, 255}

\* The strings of n bytes of NafSample
RECURSIVE SampleSeqs(_)
SampleSeqs(n) ==
    IF n = 0 THEN {<< >>}
    ELSE {Append(t, b) : t \in SampleSeqs(n - 1), b \in NafSample}

\* The inputs of length n: at most one byte outside NafSample, at any place
NafOfLen(n) ==
    UNION {{a \o <<b>> \o c : a \in SampleSeqs(q), b \in Byte,
                              c \in SampleSeqs(n - 1 - q)} : q \in 0..(n - 1)}

NafInputs == {<< >>} \cup UNION {NafOfLen(n) : n \in 1..NafMaxLen}

Idle == [pc |-> "idle"]

InitNAF ==
    /\ naf \in {[pc |-> "call", k |-> k, pos |-> << >>, neg |-> << >>] :
                    k \in NafInputs}
    /\ grp = Idle /\ sm = Idle /\ lin = Idle
    /\ once = Idle /\ gor = Idle /\ shared = Idle

\* pos, neg := NAF(k)
CallNAF ==
    /\ naf.pc = "call"
    /\ \E r \in {NAF(naf.k)} :
          naf' = [naf EXCEPT !.pc = "done", !.pos = r.pos, !.neg = r.neg]
    /\ UNCHANGED <<grp, sm, lin, once, gor, shared>>

NextNAF == CallNAF

SpecNAF == InitNAF /\ [][NextNAF]_vars

\* C3: for every byte string k, empty or not, with or without a carry past
\* its most significant bit, NAF(k) = (pos, neg) has value(pos) - value(neg)
\* = value(k); stated as value(pos) = value(k) + value(neg).
NAFValueRoundTrip ==
    naf.pc = "done" =>
        Strip(naf.pos) = Strip(AddBytes(naf.k, naf.neg, 0))

\* A call whose recoding carried past the most significant bit of a
\* two-byte or longer input and produced negative digits
NAFCarryWitness ==
    /\ naf.pc = "done"
    /\ Len(naf.k) >= 2
    /\ Len(naf.pos) = Len(naf.k) + 1
    /\ naf.pos[1] = 1
    /\ Strip(naf.neg) # << >>

\* C4: the two results of NAF have the same length, no bit position is set
\* in both, and no two adjacent positions of the signed-digit sequence are both
\* non-zero, byte boundaries and the extra leading byte included.
NAFNonAdjacent ==
    naf.pc = "done" =>
        /\ Len(naf.pos) = Len(naf.neg)
        /\ \A t \in 0..(8 * Len(naf.pos) - 1) :
              /\ ~(BitAt(naf.pos, t) = 1 /\ BitAt(naf.neg, t) = 1)
              /\ t + 1 < 8 * Len(naf.pos) =>
                    ~(DigitSet(naf.pos, naf.neg, t)
                        /\ DigitSet(naf.pos, naf.neg, t + 1))

\* A call with a non-zero digit at the top bit of a byte whose neighbour
\* across the byte boundary is a 1 bit of the input, and with the extra byte
NAFBoundaryWitness ==
    /\ naf.pc = "done"
    /\ Len(naf.k) >= 2
    /\ Len(naf.pos) = Len(naf.k) + 1
    /\ \E t \in 0..(8 * Len(naf.k) - 1) :
          /\ t % 8 = 7
          /\ DigitSet(naf.pos, naf.neg, t)
          /\ t + 1 < 8 * Len(naf.k)
          /\ BitAt(naf.k, t + 1) = 1

-----------------------------------------------------------------------------
(* SpecGroup: one call of Add and one of Double on each pair of inputs.    *)

\* The curve points drawn are n*G and -n*G for 1 <= n <= MaxPoint
MaxPoint == 6

CurvePoints ==
    UNION {{RefMul(n, <<Gx, Gy>>), RefNeg(RefMul(n, <<Gx, Gy>>))} :
              n \in 1..MaxPoint}

\* Inputs with y = 0, none of them on the curve
ZeroYInputs == {<<1, 0>>, <<2, 0>>, <<P - 1, 0>>}

GroupInputs == CurvePoints \cup {Infinity} \cup ZeroYInputs

InitGroup ==
    /\ grp \in {[x1 |-> p[1], y1 |-> p[2], x2 |-> q[1], y2 |-> q[2],
                 added |-> FALSE, sum |-> << >>, path |-> "", jac |-> << >>,
                 doubled |-> FALSE, dbl |-> << >>] :
                    p \in GroupInputs, q \in GroupInputs}
    /\ naf = Idle /\ sm = Idle /\ lin = Idle
    /\ once = Idle /\ gor = Idle /\ shared = Idle

\* sum := Add(x1, y1, x2, y2)
CallAdd ==
    /\ ~grp.added
    /\ \E r \in {AddTrace(grp.x1, grp.y1, grp.x2, grp.y2)} :
          grp' = [grp EXCEPT !.added = TRUE, !.sum = r.ret,
                             !.path = r.path, !.jac = r.jac]
    /\ UNCHANGED <<naf, sm, lin, once, gor, shared>>

\* dbl := Double(x1, y1)
CallDouble ==
    /\ ~grp.doubled
    /\ grp' = [grp EXCEPT !.doubled = TRUE, !.dbl = Double(grp.x1, grp.y1)]
    /\ UNCHANGED <<naf, sm, lin, once, gor, shared>>

NextGroup == CallAdd \/ CallDouble

SpecGroup == InitGroup /\ [][NextGroup]_vars

\* C5: for an on-curve point Q = (x, y) other than infinity, Add(Q, -Q) with
\* -Q = (x, (P - y) mod P) returns (0, 0): the equal-Z path finds equal X and
\* different Y and stores the triple (0, 0, 0), which the conversion to affine
\* turns into (0, 0).
AddNegationIsInfinity ==
    (/\ grp.added
     /\ <<grp.x1, grp.y1>> # Infinity
     /\ IsOnCurve(grp.x1, grp.y1)
     /\ grp.x2 = grp.x1
     /\ grp.y2 = (P - grp.y1) % P)
        => /\ grp.path = "eqZinf"
           /\ grp.jac = <<0, 0, 0>>
           /\ grp.sum = <<0, 0>>

\* Add has returned for a point other than G or -G and its negation
AddNegationWitness ==
    /\ grp.added
    /\ IsOnCurve(grp.x1, grp.y1)
    /\ grp.x1 # Gx
    /\ grp.x2 = grp.x1
    /\ grp.y2 = (P - grp.y1) % P
    /\ grp.y2 # grp.y1
    /\ grp.sum = <<0, 0>>

\* C6: for P on the curve, for P = (0, 0) and for any P with y = 0,
\* Double(P) and Add(P, P) return the same affine point.
DoubleIsAddSelf ==
    (/\ grp.added
     /\ grp.doubled
     /\ <<grp.x2, grp.y2>> = <<grp.x1, grp.y1>>
     /\ \/ IsOnCurve(grp.x1, grp.y1)
        \/ <<grp.x1, grp.y1>> = Infinity
        \/ grp.y1 = 0)
        => grp.dbl = grp.sum

\* Double and Add have both returned for an on-curve point other than G,
\* with a result that is not the point at infinity
DoubleIsAddWitness ==
    /\ grp.added
    /\ grp.doubled
    /\ <<grp.x2, grp.y2>> = <<grp.x1, grp.y1>>
    /\ IsOnCurve(grp.x1, grp.y1)
    /\ grp.x1 # Gx
    /\ grp.dbl = grp.sum
    /\ grp.dbl # Infinity
    /\ IsOnCurve(grp.dbl[1], grp.dbl[2])

-----------------------------------------------------------------------------
(* SpecMult: x, y := ScalarMult(Bx, By, k) followed by ScalarBaseMult(k),  *)
(* ScalarMult taken one pass of its inner loop at a time and               *)
(* ScalarBaseMult one table entry at a time.                               *)

\* The points drawn are (0, 0) and n*G for 1 <= n <= MaxMultPoint
MaxMultPoint == 2

\* The scalars drawn are within MaxScalar of 0 and of N, and a few others
MaxScalar == 2

\* Each of the two roundings of splitK is off by at most RoundSlack
RoundSlack == 1

MultPoints == {Infinity} \cup {RefMul(n, <<Gx, Gy>>) : n \in 1..MaxMultPoint}

ScalarValues ==
    (0..MaxScalar) \cup ((N - MaxScalar)..(N + MaxScalar))
        \cup {114, 216, 217, 255, 256, 457, 476, 907, 4660, 19999, 30000}

\* Scalars of every length: minimal, with a leading zero byte, wider than N
MultScalars ==
    {Bytes(v) : v \in ScalarValues}
        \cup {<<0>> \o Bytes(v) : v \in 0..MaxScalar}
        \cup {<<1, 0, 0>>, <<255, 255, 255>>}

InitMult ==
    /\ sm \in {[pc |-> "call", Bx |-> p[1], By |-> p[2], k |-> k,
                e1 |-> e1, e2 |-> e2, sp |-> << >>, loc |-> << >>,
                ret |-> << >>, bloc |-> << >>, base |-> << >>] :
                   p \in MultPoints, k \in MultScalars,
                   e1 \in (0 - RoundSlack)..RoundSlack,
                   e2 \in (0 - RoundSlack)..RoundSlack}
    /\ naf = Idle /\ grp = Idle /\ lin = Idle
    /\ once = Idle /\ gor = Idle /\ shared = Idle

\* ScalarMult, lines 320-366: split the scalar, set up P1, P2 and the NAFs
SMEnter ==
    /\ sm.pc = "call"
    /\ \E sp \in {splitK(moduloReduce(sm.k), sm.e1, sm.e2)} :
          sm' = [sm EXCEPT !.pc = "loop", !.sp = sp,
                           !.loc = ScalarMultSetup(sm.Bx, sm.By, sp)]
    /\ UNCHANGED <<naf, grp, lin, once, gor, shared>>

\* ScalarMult, lines 373-414: one pass of the inner loop
SMPass ==
    /\ sm.pc = "loop"
    /\ sm.loc.i < sm.loc.m
    /\ sm' = [sm EXCEPT !.loc = CombStep(sm.loc)]
    /\ UNCHANGED <<naf, grp, lin, once, gor, shared>>

\* ScalarMult, line 417: the conversion, which rewrites qx, qy, qz in place
SMReturn ==
    /\ sm.pc = "loop"
    /\ ~(sm.loc.i < sm.loc.m)
    /\ \E r \in {fieldJacobianToBigAffine(sm.loc.qx, sm.loc.qy, sm.loc.qz)} :
          sm' = [sm EXCEPT !.pc = "base", !.ret = ScalarMultReturn(sm.loc),
                           !.loc.qx = r.x, !.loc.qy = r.y, !.loc.qz = r.z]
    /\ UNCHANGED <<naf, grp, lin, once, gor, shared>>

\* ScalarBaseMult, lines 424-428
SBMEnter ==
    /\ sm.pc = "base"
    /\ sm' = [sm EXCEPT !.pc = "baseLoop",
                        !.bloc = ScalarBaseMultSetup(initS256, sm.k)]
    /\ UNCHANGED <<naf, grp, lin, once, gor, shared>>

\* ScalarBaseMult, lines 435-438: one iteration
SBMIter ==
    /\ sm.pc = "baseLoop"
    /\ sm.bloc.i < Len(sm.bloc.newK)
    /\ sm' = [sm EXCEPT !.bloc = ScalarBaseMultIter(initS256, sm.bloc).st]
    /\ UNCHANGED <<naf, grp, lin, once, gor, shared>>

\* ScalarBaseMult, line 439
SBMReturn ==
    /\ sm.pc = "baseLoop"
    /\ ~(sm.bloc.i < Len(sm.bloc.newK))
    /\ \E r \in {fieldJacobianToBigAffine(sm.bloc.qx, sm.bloc.qy, sm.bloc.qz)} :
          sm' = [sm EXCEPT !.pc = "done", !.base = <<r.x3, r.y3>>,
                           !.bloc.qx = r.x, !.bloc.qy = r.y, !.bloc.qz = r.z]
    /\ UNCHANGED <<naf, grp, lin, once, gor, shared>>

NextMult == SMEnter \/ SMPass \/ SMReturn \/ SBMEnter \/ SBMIter \/ SBMReturn

SpecMult == InitMult /\ [][NextMult]_vars

\* sign * p for a sign in {-1, 0, 1} as splitK returns it
SignedPoint(sign, p) == IF sign = 0 - 1 THEN RefNeg(p) ELSE p

\* phi(x, y) = (beta * x, y)
Phi(p) == IF p = Infinity THEN Infinity ELSE <<Mul2(p[1], beta), p[2]>>

\* The integer formed by the top t signed digits of (pos, neg) padded in
\* front to m bytes
TopDigits(pos, neg, m, t) ==
    (SetBytes(pos) \div (2 ^ (8 * m - t))) - (SetBytes(neg) \div (2 ^ (8 * m - t)))

\* C1: for every scalar k, whatever its length, ScalarBaseMult(k) returns the
\* point ScalarMult(Gx, Gy, k) returns; both return (0, 0) when k is 0 or N
\* (a multiple of N), and (Gx, Gy) when k is 1.
BaseMultAgreesWithMult ==
    (sm.pc = "done" /\ <<sm.Bx, sm.By>> = <<Gx, Gy>>)
        => /\ sm.base = sm.ret
           /\ SetBytes(sm.k) % N = 0 => sm.base = <<0, 0>> /\ sm.ret = <<0, 0>>
           /\ SetBytes(sm.k) = 1 => sm.base = <<Gx, Gy>> /\ sm.ret = <<Gx, Gy>>

\* Both multiplications have returned -G for k = N - 1
BaseMultWitness ==
    /\ sm.pc = "done"
    /\ <<sm.Bx, sm.By>> = <<Gx, Gy>>
    /\ SetBytes(sm.k) = N - 1
    /\ sm.ret = <<Gx, P - Gy>>
    /\ sm.base = sm.ret

\* C9 as the specification states it: the input (0, 0) is carried with
\* Z = 0, no addition in the loop changes the accumulator, which therefore
\* stays (0, 0, 0), and (0, 0) is returned.
InfinityCarriedAsZeroZ ==
    (sm.pc # "call" /\ <<sm.Bx, sm.By>> = <<0, 0>>)
        => /\ sm.loc.p1z = 0 /\ sm.loc.p2z = 0
           /\ sm.pc = "loop" => <<sm.loc.qx, sm.loc.qy, sm.loc.qz>> = <<0, 0, 0>>
           /\ sm.pc # "loop" => sm.ret = <<0, 0>>

\* C9, amended: the input (0, 0) is carried as P1 = P2 = (0, +-0, 1), with
\* Z = 1 and X and Y equal to 0 modulo P; an addition in the loop may change
\* the accumulator, but leaves its X and Y at 0 modulo P and its Z at 0 or 1
\* modulo P, and (0, 0) is returned.
InfinityInputGivesInfinity ==
    (sm.pc # "call" /\ <<sm.Bx, sm.By>> = <<0, 0>>)
        => /\ sm.loc.p1z = 1 /\ sm.loc.p2z = 1
           /\ Normalize(sm.loc.p1x) = 0 /\ Normalize(sm.loc.p1y) = 0
           /\ Normalize(sm.loc.p2x) = 0 /\ Normalize(sm.loc.p2y) = 0
           /\ Normalize(sm.loc.qx) = 0 /\ Normalize(sm.loc.qy) = 0
           /\ Normalize(sm.loc.qz) \in {0, 1}
           /\ sm.pc # "loop" => sm.ret = <<0, 0>>

\* ScalarMult of (0, 0) is in its loop with the accumulator at Z = 1 and a
\* Y that is a non-zero multiple of P
InfinityInputWitness ==
    /\ sm.pc = "loop"
    /\ <<sm.Bx, sm.By>> = <<0, 0>>
    /\ sm.loc.doublings > 0
    /\ sm.loc.qz = 1
    /\ sm.loc.qy # 0

\* C10: the loop makes one doubling per bit position, 8*m of them with m the
\* longer NAF length, the shorter NAF counting as padded in front with zero
\* digits; after t positions the accumulator is d1*(sign1*P) + d2*(sign2*phi(P))
\* for d1, d2 the integers of the top t signed digits; at loop exit it is
\* sign1*k1*P + sign2*k2*phi(P); a negative sign only swaps Y and -Y.
CombInvariant ==
    sm.pc = "loop" =>
        LET l == sm.loc
            t == l.doublings
            pt == <<Normalize(sm.Bx), Normalize(sm.By)>>
            s1 == SignedPoint(sm.sp.signK1, pt)
            s2 == SignedPoint(sm.sp.signK2, Phi(pt))
            d1 == TopDigits(l.k1PosNAF, l.k1NegNAF, l.m, t)
            d2 == TopDigits(l.k2PosNAF, l.k2NegNAF, l.m, t)
        IN  /\ l.m = IF l.k1Len < l.k2Len THEN l.k2Len ELSE l.k1Len
            /\ t = 8 * l.i + (7 - l.j)
            /\ l.i <= l.m
            /\ l.i = l.m => l.j = 7
            /\ AffineOf(l.qx, l.qy, l.qz) = RefAdd(RefMul(d1, s1), RefMul(d2, s2))
            /\ l.i = l.m =>
                  AffineOf(l.qx, l.qy, l.qz) =
                      RefAdd(RefMul(sm.sp.signK1 * SetBytes(sm.sp.k1), pt),
                             RefMul(sm.sp.signK2 * SetBytes(sm.sp.k2), Phi(pt)))
            /\ Normalize(l.p1x) = pt[1] /\ Normalize(l.p2x) = Phi(pt)[1]
            /\ Normalize(l.p1y) = s1[2] /\ Normalize(l.p1yNeg) = RefNeg(s1)[2]
            /\ Normalize(l.p2y) = s2[2] /\ Normalize(l.p2yNeg) = RefNeg(s2)[2]

\* The loop has ended for a split with a shorter first NAF and a negative
\* second half, on a point other than infinity
CombWitness ==
    /\ sm.pc = "loop"
    /\ sm.loc.i = sm.loc.m
    /\ sm.loc.k1Len < sm.loc.k2Len
    /\ sm.loc.k1Len > 0
    /\ sm.sp.signK2 = 0 - 1
    /\ sm.loc.doublings = 8 * sm.loc.m
    /\ <<sm.Bx, sm.By>> # <<0, 0>>
    /\ AffineOf(sm.loc.qx, sm.loc.qy, sm.loc.qz) # Infinity

-----------------------------------------------------------------------------
(* SpecLinear: ScalarMult(P, a), ScalarMult(P, b), ScalarMult(P, a+b mod N) *)
(* and the Add of the first two.                                           *)

\* Scalars that make partial products infinite, equal and opposite
LinScalars ==
    {Bytes(v) : v \in (0..MaxScalar) \cup ((N - MaxScalar)..N)
                        \cup {457, N - 457, 19999}}

InitLinear ==
    /\ lin \in {[pc |-> "a", Bx |-> p[1], By |-> p[2], a |-> a, b |-> b,
                 e1 |-> e1, e2 |-> e2,
                 ra |-> << >>, rb |-> << >>, rab |-> << >>, sum |-> << >>] :
                    p \in MultPoints \ {Infinity},
                    a \in LinScalars, b \in LinScalars,
                    e1 \in (0 - RoundSlack)..RoundSlack,
                    e2 \in (0 - RoundSlack)..RoundSlack}
    /\ naf = Idle /\ grp = Idle /\ sm = Idle
    /\ once = Idle /\ gor = Idle /\ shared = Idle

\* ra := ScalarMult(P, a)
LinMultA ==
    /\ lin.pc = "a"
    /\ lin' = [lin EXCEPT !.pc = "b",
                  !.ra = ScalarMult(lin.Bx, lin.By, lin.a, lin.e1, lin.e2)]
    /\ UNCHANGED <<naf, grp, sm, once, gor, shared>>

\* rb := ScalarMult(P, b)
LinMultB ==
    /\ lin.pc = "b"
    /\ lin' = [lin EXCEPT !.pc = "ab",
                  !.rb = ScalarMult(lin.Bx, lin.By, lin.b, lin.e1, lin.e2)]
    /\ UNCHANGED <<naf, grp, sm, once, gor, shared>>

\* rab := ScalarMult(P, (a + b) mod N)
LinMultSum ==
    /\ lin.pc = "ab"
    /\ \E ab \in {Bytes((SetBytes(lin.a) + SetBytes(lin.b)) % N)} :
          lin' = [lin EXCEPT !.pc = "add",
                     !.rab = ScalarMult(lin.Bx, lin.By, ab, lin.e1, lin.e2)]
    /\ UNCHANGED <<naf, grp, sm, once, gor, shared>>

\* sum := Add(ra, rb)
LinAdd ==
    /\ lin.pc = "add"
    /\ lin' = [lin EXCEPT !.pc = "done",
                  !.sum = Add(lin.ra[1], lin.ra[2], lin.rb[1], lin.rb[2])]
    /\ UNCHANGED <<naf, grp, sm, once, gor, shared>>

NextLinear == LinMultA \/ LinMultB \/ LinMultSum \/ LinAdd

SpecLinear == InitLinear /\ [][NextLinear]_vars

\* C2: for an on-curve point P and scalars a, b, ScalarMult(P, (a+b) mod N)
\* is Add(ScalarMult(P, a), ScalarMult(P, b)), also when a partial product is
\* (0, 0), when the two are equal and when they are negations of each other.
ScalarMultLinear ==
    (lin.pc = "done" /\ IsOnCurve(lin.Bx, lin.By)) => lin.rab = lin.sum

\* The call with two equal partial products, neither the point at infinity
ScalarMultLinearWitness ==
    /\ lin.pc = "done"
    /\ IsOnCurve(lin.Bx, lin.By)
    /\ lin.ra = lin.rb
    /\ lin.ra # Infinity
    /\ lin.rab = lin.sum
    /\ lin.rab # Infinity

-----------------------------------------------------------------------------
(* SpecOnce: goroutines calling S256() concurrently.  initonce is a        *)
(* sync.Once: Do(f) returns at once when done is set; otherwise it takes   *)
(* the mutex, runs f if done is still clear, sets done when f returns, and *)
(* releases the mutex.                                                     *)

\* The goroutines calling S256()
NumGoroutines == 3

Goroutines == 1..NumGoroutines

\* Under the mutex, Do runs f when done is still 0
DoSlowRunsAlways(done) == TRUE

DoSlowRuns(done) == done = 0

InitOnce ==
    /\ once = [done |-> 0, m |-> 0, runs |-> 0, step |-> 0, curve |-> curveZero]
    /\ gor = [g \in Goroutines |-> [pc |-> "call", seen |-> << >>]]
    /\ naf = Idle /\ grp = Idle /\ sm = Idle /\ lin = Idle /\ shared = Idle

\* S256() calls initonce.Do(initAll): the load of done on the fast path
S256Call(g) ==
    /\ gor[g].pc = "call"
    /\ gor' = [gor EXCEPT ![g].pc = IF once.done = 1 THEN "ret" ELSE "lock"]
    /\ UNCHANGED <<naf, grp, sm, lin, once, shared>>

\* Do, slow path: o.m.Lock()
OnceLock(g) ==
    /\ gor[g].pc = "lock"
    /\ once.m = 0
    /\ once' = [once EXCEPT !.m = g]
    /\ gor' = [gor EXCEPT ![g].pc = "locked"]
    /\ UNCHANGED <<naf, grp, sm, lin, shared>>

\* Do, slow path: if o.done == 0 then f() is entered
OnceCheck(g) ==
    /\ gor[g].pc = "locked"
    /\ IF DoSlowRuns(once.done)
       THEN /\ once' = [once EXCEPT !.runs = @ + 1, !.step = 0]
            /\ gor' = [gor EXCEPT ![g].pc = "init"]
       ELSE /\ gor' = [gor EXCEPT ![g].pc = "unlock"]
            /\ UNCHANGED once
    /\ UNCHANGED <<naf, grp, sm, lin, shared>>

\* initAll() -> initS256(): its next statement
InitS256Step(g) ==
    /\ gor[g].pc = "init"
    /\ once.step < Len(InitFields)
    /\ once' = [once EXCEPT !.step = @ + 1,
                            !.curve = InitS256Statement(@, once.step + 1)]
    /\ UNCHANGED <<naf, grp, sm, lin, gor, shared>>

\* f has returned: the deferred store of done = 1
OnceStore(g) ==
    /\ gor[g].pc = "init"
    /\ once.step = Len(InitFields)
    /\ once' = [once EXCEPT !.done = 1]
    /\ gor' = [gor EXCEPT ![g].pc = "unlock"]
    /\ UNCHANGED <<naf, grp, sm, lin, shared>>

\* The deferred o.m.Unlock(); Do returns
OnceUnlock(g) ==
    /\ gor[g].pc = "unlock"
    /\ once' = [once EXCEPT !.m = 0]
    /\ gor' = [gor EXCEPT ![g].pc = "ret"]
    /\ UNCHANGED <<naf, grp, sm, lin, shared>>

\* return &secp256k1: the caller sees the curve as it is
S256Return(g) ==
    /\ gor[g].pc = "ret"
    /\ gor' = [gor EXCEPT ![g].pc = "done", ![g].seen = once.curve]
    /\ UNCHANGED <<naf, grp, sm, lin, once, shared>>

NextOnce ==
    \E g \in Goroutines :
        \/ S256Call(g)
        \/ OnceLock(g)
        \/ OnceCheck(g)
        \/ InitS256Step(g)
        \/ OnceStore(g)
        \/ OnceUnlock(g)
        \/ S256Return(g)

SpecOnce == InitOnce /\ [][NextOnce]_vars

\* C7: however the calls of S256() interleave, initS256 runs exactly once,
\* and no call returns before it has completed: the curve a caller gets, then
\* and later, has every field set.
InitialisedExactlyOnce ==
    /\ once.runs <= 1
    /\ \A g \in Goroutines :
          gor[g].pc = "done" =>
              /\ once.runs = 1
              /\ once.done = 1
              /\ once.step = Len(InitFields)
              /\ gor[g].seen = initS256
              /\ once.curve = initS256

\* One caller has returned while another, which found done clear, holds the
\* mutex and a third has not yet called
InitialisedOnceWitness ==
    \E g, h, i \in Goroutines :
        /\ gor[g].pc = "done"
        /\ gor[h].pc = "locked"
        /\ gor[i].pc = "call"
        /\ once.runs = 1
        /\ gor[g].seen = initS256

-----------------------------------------------------------------------------
(* SpecShared: after initialisation, goroutines call Add, Double,          *)
(* IsOnCurve, ScalarMult and ScalarBaseMult on the shared curve.  Field    *)
(* values live in memory cells: the cells of secp256k1 (owner 0) and the   *)
(* cells each goroutine allocates for a call (owner g).  The routines take *)
(* pointers to cells, as the code does, and write through them.            *)

\* The goroutines using the curve
NumWorkers == 2

Workers == 1..NumWorkers

SharedScalars == {<<2>>, <<1, 2>>}

\* The pairs of points given to Add, and the points given to Double
SharedPairs ==
    {<<p, q>> : p \in {<<Gx, Gy>>}, q \in {<<Gx, Gy>>, RefMul(2, <<Gx, Gy>>)}}
      \cup {<<Infinity, <<Gx, Gy>>>>}

SharedPoints == {Infinity, <<Gx, Gy>>}

\* &curve.beta, &curve.bytePoints[w][b][c]: a pointer into secp256k1
CurvePtr(cell) == [owner |-> 0, cell |-> cell]

\* A pointer to the cell that goroutine g allocated for its variable name
FramePtr(g, name) == [owner |-> g, cell |-> <<name>>]

\* A frame with no cell allocated
EmptyFrame == [c \in {} |-> 0]

\* *p
Load(m, p) ==
    IF p.owner = 0
    THEN IF p.cell[1] = "beta"
         THEN m.curve.beta
         ELSE m.curve.bytePoints[p.cell[2]][p.cell[3]][p.cell[4]]
    ELSE m.frames[p.owner][p.cell]

\* *p = v; the pointer written through is logged
Store(m, p, v) ==
    IF p.owner = 0
    THEN IF p.cell[1] = "beta"
         THEN [m EXCEPT !.curve.beta = v, !.wrote = @ \cup {p}]
         ELSE [m EXCEPT
                 !.curve.bytePoints[p.cell[2]][p.cell[3]][p.cell[4]] = v,
                 !.wrote = @ \cup {p}]
    ELSE [m EXCEPT !.frames[p.owner][p.cell] = v, !.wrote = @ \cup {p}]

\* The stores <<pointer, value>> made in order
RECURSIVE StoreAll(_, _)
StoreAll(m, stores) ==
    IF stores = << >> THEN m
    ELSE The({StoreAll(m1, Tail(stores)) :
                 m1 \in {Store(m, Head(stores)[1], Head(stores)[2])}})

\* new(fieldVal), var: a zeroed cell in the frame of g for each name
RECURSIVE NewAll(_, _, _)
NewAll(m, g, names) ==
    IF names = << >> THEN m
    ELSE The({NewAll(m1, g, Tail(names)) :
                 m1 \in {[m EXCEPT !.frames[g] = (<<Head(names)>> :> 0) @@ @]}})

\* The frame of g released when its call returns
Release(m, g) == [m EXCEPT !.frames[g] = EmptyFrame]

\* bigAffineToField called by g, its results x3, y3 held in the caller's
\* variables nx, ny
bigAffineToFieldAt(m, g, nx, ny, x, y) ==
    The({StoreAll(m1, <<<<FramePtr(g, nx), f[1]>>, <<FramePtr(g, ny), f[2]>>>>) :
            m1 \in {NewAll(m, g, <<nx, ny>>)},
            f \in {bigAffineToField(x, y)}})

\* fieldJacobianToBigAffine(x, y, z) on pointers: the memory it leaves and
\* the integers it returns
fieldJacobianToBigAffineAt(m, x, y, z) ==
    The({[m |-> StoreAll(m, <<<<x, r.x>>, <<y, r.y>>, <<z, r.z>>>>),
          ret |-> <<r.x3, r.y3>>] :
            r \in {fieldJacobianToBigAffine(Load(m, x), Load(m, y), Load(m, z))}})

\* doubleJacobian(x1, y1, z1, x3, y3, z3) on pointers
doubleJacobianAt(m, x1, y1, z1, x3, y3, z3) ==
    The({StoreAll(m, <<<<x3, r.x3>>, <<y3, r.y3>>, <<z3, r.z3>>>>) :
            r \in {doubleJacobian(Load(m, x1), Load(m, y1), Load(m, z1))}})

\* addJacobian(x1, y1, z1, x2, y2, z2, x3, y3, z3) on pointers: the equal-Z
\* addition normalises x1, y1, x2, y2 in place before it stores the sum
addJacobianAt(m, x1, y1, z1, x2, y2, z2, x3, y3, z3) ==
    The({StoreAll(m,
                  (IF r.path \in {"eqZdouble", "eqZinf", "eqZchord"}
                   THEN <<<<x1, r.x1n>>, <<y1, r.y1n>>,
                          <<x2, r.x2n>>, <<y2, r.y2n>>>>
                   ELSE << >>)
                    \o <<<<x3, r.x3>>, <<y3, r.y3>>, <<z3, r.z3>>>>) :
            r \in {addJacobian(Load(m, x1), Load(m, y1), Load(m, z1),
                               Load(m, x2), Load(m, y2), Load(m, z2))}})

\* Lines 192-195 of Add
AddFrame(m, g, x1, y1, x2, y2) ==
    The({Store(m3, FramePtr(g, "fOne"), SetInt(1)) :
            m3 \in {NewAll(m2, g, <<"fx3", "fy3", "fz3", "fOne">>) :
                      m2 \in {bigAffineToFieldAt(m1, g, "fx2", "fy2", x2, y2) :
                                m1 \in {bigAffineToFieldAt(m, g, "fx1", "fy1",
                                                           x1, y1)}}}})

\* Lines 211-213 of Double
DoubleFrame(m, g, x1, y1) ==
    The({Store(m2, FramePtr(g, "fOne"), SetInt(1)) :
            m2 \in {NewAll(m1, g, <<"fx3", "fy3", "fz3", "fOne">>) :
                      m1 \in {bigAffineToFieldAt(m, g, "fx1", "fy1", x1, y1)}}})

\* Lines 226-231 of IsOnCurve: the memory it leaves and its result
IsOnCurveAt(m, g, x, y) ==
    The({The({[m |-> m3,
               ret |-> Equals(Load(m3, FramePtr(g, "y2")),
                              Load(m3, FramePtr(g, "result")))] :
                m3 \in {StoreAll(m2,
                          <<<<FramePtr(g, "y2"), SquareVal(fy)>>,
                            <<FramePtr(g, "y2"), Normalize(SquareVal(fy))>>,
                            <<FramePtr(g, "result"), SquareVal(fx)>>,
                            <<FramePtr(g, "result"), Mul2(SquareVal(fx), fx)>>,
                            <<FramePtr(g, "result"),
                              FAdd(Mul2(SquareVal(fx), fx), 7)>>,
                            <<FramePtr(g, "result"),
                              Normalize(FAdd(Mul2(SquareVal(fx), fx), 7))>>>>) :
                          m2 \in {NewAll(m1, g, <<"y2", "result">>)},
                          fx \in {Load(m1, FramePtr(g, "fx"))},
                          fy \in {Load(m1, FramePtr(g, "fy"))}}}) :
            m1 \in {bigAffineToFieldAt(m, g, "fx", "fy", x, y)}})

\* Lines 320-339 of ScalarMult: the field values of the call
ScalarMultFrame(m, g, Bx, By) ==
    The({The({StoreAll(m3,
                <<<<FramePtr(g, "p1yNeg"), Negate(p1y, 1)>>,
                  <<FramePtr(g, "p1z"), SetInt(1)>>,
                  <<FramePtr(g, "p2x"), Mul2(p1x, Load(m2, CurvePtr(<<"beta">>)))>>,
                  <<FramePtr(g, "p2y"), p1y>>,
                  <<FramePtr(g, "p2yNeg"), Negate(p1y, 1)>>,
                  <<FramePtr(g, "p2z"), SetInt(1)>>>>) :
                m3 \in {NewAll(m2, g, <<"p1yNeg", "p1z", "p2x", "p2y",
                                       "p2yNeg", "p2z">>)},
                p1x \in {Load(m2, FramePtr(g, "p1x"))},
                p1y \in {Load(m2, FramePtr(g, "p1y"))}}) :
            m2 \in {bigAffineToFieldAt(m1, g, "p1x", "p1y", Bx, By) :
                      m1 \in {NewAll(m, g, <<"qx", "qy", "qz">>)}}})

\* The pointer variables of ScalarMult after lines 347-352, which exchange
\* p1y with p1yNeg and p2y with p2yNeg by sign
ScalarMultPointers(g, sp) ==
    [qx |-> FramePtr(g, "qx"), qy |-> FramePtr(g, "qy"),
     qz |-> FramePtr(g, "qz"),
     p1x |-> FramePtr(g, "p1x"),
     p1y |-> FramePtr(g, IF sp.signK1 = 0 - 1 THEN "p1yNeg" ELSE "p1y"),
     p1yNeg |-> FramePtr(g, IF sp.signK1 = 0 - 1 THEN "p1y" ELSE "p1yNeg"),
     p1z |-> FramePtr(g, "p1z"),
     p2x |-> FramePtr(g, "p2x"),
     p2y |-> FramePtr(g, IF sp.signK2 = 0 - 1 THEN "p2yNeg" ELSE "p2y"),
     p2yNeg |-> FramePtr(g, IF sp.signK2 = 0 - 1 THEN "p2y" ELSE "p2yNeg"),
     p2z |-> FramePtr(g, "p2z")]

\* Lines 358-372 of ScalarMult: the NAFs, their lengths and the loop counters
ScalarMultCounters(sp) ==
    The({LET k1Len == Len(n1.pos)
             k2Len == Len(n2.pos)
         IN  [k1PosNAF |-> n1.pos, k1NegNAF |-> n1.neg,
              k2PosNAF |-> n2.pos, k2NegNAF |-> n2.neg,
              k1Len |-> k1Len, k2Len |-> k2Len,
              m |-> IF k1Len < k2Len THEN k2Len ELSE k1Len,
              i |-> 0, j |-> 7,
              k1BytePos |-> 0, k1ByteNeg |-> 0,
              k2BytePos |-> 0, k2ByteNeg |-> 0] :
            n1 \in {NAF(sp.k1)}, n2 \in {NAF(sp.k2)}})

\* curve.addJacobian(qx, qy, qz, px, py, pz, qx, qy, qz) through the pointer
\* variables ptr
AddIntoAt(m, ptr, px, py, pz) ==
    addJacobianAt(m, ptr.qx, ptr.qy, ptr.qz, ptr[px], ptr[py], ptr[pz],
                  ptr.qx, ptr.qy, ptr.qz)

\* Lines 394-400 on pointers
AddDigitK1At(m, ptr, s) ==
    IF TopBit(s.k1BytePos) THEN AddIntoAt(m, ptr, "p1x", "p1y", "p1z")
    ELSE IF TopBit(s.k1ByteNeg) THEN AddIntoAt(m, ptr, "p1x", "p1yNeg", "p1z")
    ELSE m

\* Lines 402-408 on pointers
AddDigitK2At(m, ptr, s) ==
    IF TopBit(s.k2BytePos) THEN AddIntoAt(m, ptr, "p2x", "p2y", "p2z")
    ELSE IF TopBit(s.k2ByteNeg) THEN AddIntoAt(m, ptr, "p2x", "p2yNeg", "p2z")
    ELSE m

\* Lines 391-412 on pointers: one pass of the inner loop, preceded by lines
\* 375-388 when the pass is the first of its byte
CombStepAt(m, ptr, s) ==
    The({The({[m |-> m2, s |-> ShiftBytes(l)] :
                m2 \in {AddDigitK2At(m1, ptr, l) :
                          m1 \in {AddDigitK1At(m0, ptr, l) :
                                    m0 \in {doubleJacobianAt(m, ptr.qx, ptr.qy,
                                              ptr.qz, ptr.qx, ptr.qy,
                                              ptr.qz)}}}}) :
            l \in {IF s.j = 7 THEN LoadBytes(s) ELSE s}})

\* n passes of the inner loop in order
RECURSIVE CombRunAt(_, _, _, _)
CombRunAt(m, ptr, s, n) ==
    IF n = 0 THEN [m |-> m, s |-> s]
    ELSE The({CombRunAt(r.m, ptr, r.s, n - 1) : r \in {CombStepAt(m, ptr, s)}})

\* Line 436 with a pointer taken instead, p := &curve.bytePoints[...][...]:
\* &p[0], &p[1], &p[2] point into the table
BytePointAlias(m, g, w, byteVal) ==
    [m |-> m,
     p |-> [c \in 1..3 |-> CurvePtr(<<"bytePoints", w + 1, byteVal, c>>)]]

\* Line 436, p := curve.bytePoints[diff+i][byteVal]: p is an array of the
\* call, and the assignment copies the three field values of the entry into
\* it; the result holds the memory and &p[0], &p[1], &p[2]
BytePointCopy(m, g, w, byteVal) ==
    The({[m |-> StoreAll(m1,
                  <<<<FramePtr(g, "p0"),
                      Load(m, CurvePtr(<<"bytePoints", w + 1, byteVal, 1>>))>>,
                    <<FramePtr(g, "p1"),
                      Load(m, CurvePtr(<<"bytePoints", w + 1, byteVal, 2>>))>>,
                    <<FramePtr(g, "p2"),
                      Load(m, CurvePtr(<<"bytePoints", w + 1, byteVal, 3>>))>>>>),
          p |-> <<FramePtr(g, "p0"), FramePtr(g, "p1"), FramePtr(g, "p2")>>] :
            m1 \in {NewAll(m, g, <<"p0", "p1", "p2">>)}})

\* Lines 435-438 on pointers, one iteration
ScalarBaseMultIterAt(m, g, ptr, s) ==
    The({addJacobianAt(e.m, ptr.qx, ptr.qy, ptr.qz, e.p[1], e.p[2], e.p[3],
                       ptr.qx, ptr.qy, ptr.qz) :
            e \in {BytePointCopy(m, g, s.diff + s.i, s.newK[s.i + 1])}})

\* The memory as the goroutines find it, with nothing written yet
Mem ==
    [curve |-> shared.curve,
     frames |-> [h \in Workers |-> gor[h].frame],
     wrote |-> {}]

\* The step of goroutine g leaves the memory m, and g with the program
\* counter, pointer variables, other locals and result given
Commit(g, m, pc, ptr, loc, res) ==
    /\ shared' = [curve |-> m.curve]
    /\ gor' = [h \in Workers |->
                 IF h = g
                 THEN [pc |-> pc, frame |-> m.frames[g], ptr |-> ptr,
                       loc |-> loc, res |-> res,
                       owners |-> gor[g].owners \cup {p.owner : p \in m.wrote},
                       wrote |-> m.wrote]
                 ELSE [gor[h] EXCEPT !.frame = m.frames[h]]]

InitShared ==
    /\ shared = [curve |-> initS256]
    /\ gor = [g \in Workers |->
                [pc |-> "idle", frame |-> EmptyFrame, ptr |-> << >>,
                 loc |-> << >>, res |-> << >>, owners |-> {}, wrote |-> {}]]
    /\ naf = Idle /\ grp = Idle /\ sm = Idle /\ lin = Idle /\ once = Idle

\* Add(x1, y1, x2, y2), lines 183-195
WorkerAddEnter(g, x1, y1, x2, y2) ==
    /\ gor[g].pc = "idle"
    /\ IF Sign(x1) = 0 /\ Sign(y1) = 0
       THEN Commit(g, Mem, "idle", << >>, << >>, <<x2, y2>>)
       ELSE IF Sign(x2) = 0 /\ Sign(y2) = 0
       THEN Commit(g, Mem, "idle", << >>, << >>, <<x1, y1>>)
       ELSE \E m \in {AddFrame(Mem, g, x1, y1, x2, y2)} :
               Commit(g, m, "add", << >>, << >>, << >>)
    /\ UNCHANGED <<naf, grp, sm, lin, once>>

\* Add, line 196
WorkerAddCall(g) ==
    /\ gor[g].pc = "add"
    /\ \E m \in {addJacobianAt(Mem, FramePtr(g, "fx1"), FramePtr(g, "fy1"),
                               FramePtr(g, "fOne"), FramePtr(g, "fx2"),
                               FramePtr(g, "fy2"), FramePtr(g, "fOne"),
                               FramePtr(g, "fx3"), FramePtr(g, "fy3"),
                               FramePtr(g, "fz3"))} :
          Commit(g, m, "addRet", << >>, << >>, << >>)
    /\ UNCHANGED <<naf, grp, sm, lin, once>>

\* Add, line 200
WorkerAddReturn(g) ==
    /\ gor[g].pc = "addRet"
    /\ \E r \in {fieldJacobianToBigAffineAt(Mem, FramePtr(g, "fx3"),
                                            FramePtr(g, "fy3"),
                                            FramePtr(g, "fz3"))} :
          Commit(g, Release(r.m, g), "idle", << >>, << >>, r.ret)
    /\ UNCHANGED <<naf, grp, sm, lin, once>>

\* Double(x1, y1), lines 205-213
WorkerDoubleEnter(g, x1, y1) ==
    /\ gor[g].pc = "idle"
    /\ IF Sign(y1) = 0
       THEN Commit(g, Mem, "idle", << >>, << >>, <<0, 0>>)
       ELSE \E m \in {DoubleFrame(Mem, g, x1, y1)} :
               Commit(g, m, "dbl", << >>, << >>, << >>)
    /\ UNCHANGED <<naf, grp, sm, lin, once>>

\* Double, line 214
WorkerDoubleCall(g) ==
    /\ gor[g].pc = "dbl"
    /\ \E m \in {doubleJacobianAt(Mem, FramePtr(g, "fx1"), FramePtr(g, "fy1"),
                                  FramePtr(g, "fOne"), FramePtr(g, "fx3"),
                                  FramePtr(g, "fy3"), FramePtr(g, "fz3"))} :
          Commit(g, m, "dblRet", << >>, << >>, << >>)
    /\ UNCHANGED <<naf, grp, sm, lin, once>>

\* Double, line 218
WorkerDoubleReturn(g) ==
    /\ gor[g].pc = "dblRet"
    /\ \E r \in {fieldJacobianToBigAffineAt(Mem, FramePtr(g, "fx3"),
                                            FramePtr(g, "fy3"),
                                            FramePtr(g, "fz3"))} :
          Commit(g, Release(r.m, g), "idle", << >>, << >>, r.ret)
    /\ UNCHANGED <<naf, grp, sm, lin, once>>

\* IsOnCurve(x, y)
WorkerIsOnCurve(g, x, y) ==
    /\ gor[g].pc = "idle"
    /\ \E r \in {IsOnCurveAt(Mem, g, x, y)} :
          Commit(g, Release(r.m, g), "idle", << >>, << >>, r.ret)
    /\ UNCHANGED <<naf, grp, sm, lin, once>>

\* ScalarMult(Bx, By, k), lines 320-372
WorkerScalarMultEnter(g, Bx, By, k) ==
    /\ gor[g].pc = "idle"
    /\ \E sp \in {splitK(moduloReduce(k), 0, 0)} :
          \E m \in {ScalarMultFrame(Mem, g, Bx, By)} :
             Commit(g, m, "comb", ScalarMultPointers(g, sp),
                    ScalarMultCounters(sp), << >>)
    /\ UNCHANGED <<naf, grp, sm, lin, once>>

\* ScalarMult, lines 373-414: one iteration of the outer loop
WorkerScalarMultPass(g) ==
    /\ gor[g].pc = "comb"
    /\ gor[g].loc.i < gor[g].loc.m
    /\ \E r \in {CombRunAt(Mem, gor[g].ptr, gor[g].loc, 8)} :
          Commit(g, r.m, "comb", gor[g].ptr, r.s, << >>)
    /\ UNCHANGED <<naf, grp, sm, lin, once>>

\* ScalarMult, line 417
WorkerScalarMultReturn(g) ==
    /\ gor[g].pc = "comb"
    /\ ~(gor[g].loc.i < gor[g].loc.m)
    /\ \E r \in {fieldJacobianToBigAffineAt(Mem, gor[g].ptr.qx, gor[g].ptr.qy,
                                            gor[g].ptr.qz)} :
          Commit(g, Release(r.m, g), "idle", << >>, << >>, r.ret)
    /\ UNCHANGED <<naf, grp, sm, lin, once>>

\* ScalarBaseMult(k), lines 424-428
WorkerBaseEnter(g, k) ==
    /\ gor[g].pc = "idle"
    /\ \E s \in {ScalarBaseMultSetup(shared.curve, k)} :
          \E m \in {NewAll(Mem, g, <<"qx", "qy", "qz">>)} :
             Commit(g, m, "baseLoop",
                    [qx |-> FramePtr(g, "qx"), qy |-> FramePtr(g, "qy"),
                     qz |-> FramePtr(g, "qz")],
                    [newK |-> s.newK, diff |-> s.diff, i |-> s.i], << >>)
    /\ UNCHANGED <<naf, grp, sm, lin, once>>

\* ScalarBaseMult, lines 435-438: one iteration
WorkerBaseIter(g) ==
    /\ gor[g].pc = "baseLoop"
    /\ gor[g].loc.i < Len(gor[g].loc.newK)
    /\ \E m \in {ScalarBaseMultIterAt(Mem, g, gor[g].ptr, gor[g].loc)} :
          Commit(g, m, "baseLoop", gor[g].ptr,
                 [gor[g].loc EXCEPT !.i = @ + 1], << >>)
    /\ UNCHANGED <<naf, grp, sm, lin, once>>

\* ScalarBaseMult, line 439
WorkerBaseReturn(g) ==
    /\ gor[g].pc = "baseLoop"
    /\ ~(gor[g].loc.i < Len(gor[g].loc.newK))
    /\ \E r \in {fieldJacobianToBigAffineAt(Mem, gor[g].ptr.qx, gor[g].ptr.qy,
                                            gor[g].ptr.qz)} :
          Commit(g, Release(r.m, g), "idle", << >>, << >>, r.ret)
    /\ UNCHANGED <<naf, grp, sm, lin, once>>

NextShared ==
    \E g \in Workers :
        \/ \E pq \in SharedPairs :
              WorkerAddEnter(g, pq[1][1], pq[1][2], pq[2][1], pq[2][2])
        \/ WorkerAddCall(g)
        \/ WorkerAddReturn(g)
        \/ \E p \in SharedPoints : WorkerDoubleEnter(g, p[1], p[2])
        \/ WorkerDoubleCall(g)
        \/ WorkerDoubleReturn(g)
        \/ WorkerIsOnCurve(g, Gx, Gy)
        \/ \E k \in SharedScalars : WorkerScalarMultEnter(g, Gx, Gy, k)
        \/ WorkerScalarMultPass(g)
        \/ WorkerScalarMultReturn(g)
        \/ \E k \in SharedScalars : WorkerBaseEnter(g, k)
        \/ WorkerBaseIter(g)
        \/ WorkerBaseReturn(g)

SpecShared == InitShared /\ [][NextShared]_vars

\* C8: after initialisation, no sequence or interleaving of Add, Double,
\* IsOnCurve, ScalarMult and ScalarBaseMult calls changes the shared curve
\* state, and every field value a call writes in place is a cell that the
\* call itself allocated, the table entries ScalarBaseMult hands to the
\* equal-Z addition included.
SharedStateUnchanged ==
    /\ shared.curve = initS256
    /\ \A g \in Workers :
          /\ gor[g].owners \subseteq {g}
          /\ \A p \in gor[g].wrote : p.owner = g

\* Two calls of ScalarBaseMult are under way, one of them just past an
\* addition on the equal-Z path, which normalised its table operand in place
SharedStateWitness ==
    \E g, h \in Workers :
        /\ g # h
        /\ gor[g].pc = "baseLoop"
        /\ gor[h].pc = "baseLoop"
        /\ gor[g].loc.i = 2
        /\ gor[h].loc.i = 1
        /\ FramePtr(g, "p0") \in gor[g].wrote
        /\ FramePtr(g, "qx") \in gor[g].wrote
        /\ gor[g].frame[<<"qz">>] \notin {0, 1}
        /\ gor[h].frame[<<"qz">>] = 1

-----------------------------------------------------------------------------
(* SpecZAdd: one call of addZ1EqualsZ2 on two Jacobian points with the     *)
(* same Z.                                                                 *)

\* The shared Z is drawn from 1..MaxZ and P - 1
MaxZ == 3

ZValues == (1..MaxZ) \cup {P - 1}

\* The Jacobian X and Y of the affine point p for the given z
JacobianOf(p, z) ==
    <<Mul2(p[1], SquareVal(z)), Mul2(p[2], Mul2(SquareVal(z), z))>>

\* The operands are passed as stored: canonical, or (mag = 1) with X1 and Y2
\* holding their value plus P
InitZAdd ==
    /\ grp \in {[x1 |-> JacobianOf(p, z)[1] + mag * P,
                 y1 |-> JacobianOf(p, z)[2],
                 x2 |-> JacobianOf(q, z)[1],
                 y2 |-> JacobianOf(q, z)[2] + mag * P,
                 z |-> z, called |-> FALSE, unreduced |-> (mag = 1),
                 x3 |-> 0, y3 |-> 0, z3 |-> 0, path |-> ""] :
                    p \in CurvePoints, q \in CurvePoints,
                    z \in ZValues, mag \in {0, 1}}
    /\ naf = Idle /\ sm = Idle /\ lin = Idle
    /\ once = Idle /\ gor = Idle /\ shared = Idle

\* curve.addZ1EqualsZ2(x1, y1, z, x2, y2, x3, y3, z3): lines 28-31 normalise
\* the operands through their pointers, the rest writes x3, y3, z3
CallAddZ1EqualsZ2 ==
    /\ ~grp.called
    /\ \E r \in {addZ1EqualsZ2(grp.x1, grp.y1, grp.z, grp.x2, grp.y2)} :
          grp' = [grp EXCEPT !.called = TRUE,
                             !.x1 = r.x1n, !.y1 = r.y1n,
                             !.x2 = r.x2n, !.y2 = r.y2n,
                             !.x3 = r.x3, !.y3 = r.y3,
                             !.z3 = r.z3, !.path = r.path]
    /\ UNCHANGED <<naf, sm, lin, once, gor, shared>>

NextZAdd == CallAddZ1EqualsZ2

SpecZAdd == InitZAdd /\ [][NextZAdd]_vars

\* C11: for two Jacobian points (X1, Y1, Z), (X2, Y2, Z) with the same Z # 0
\* that represent on-curve affine points, addZ1EqualsZ2 stores a Jacobian
\* representative of their sum: for X1 # X2 it is X3 = D-E-F,
\* Y3 = C*(E-X3) - Y1*(F-E), Z3 = Z*(X2-X1) with Z3 # 0 and affine value the
\* chord sum; for X1 = X2, Y1 = Y2 it is the result of doubleJacobian; for
\* X1 = X2, Y1 # Y2 it is (0, 0, 0).
ZAddIsGroupSum ==
    grp.called =>
        LET X1 == grp.x1 % P
            Y1 == grp.y1 % P
            X2 == grp.x2 % P
            Y2 == grp.y2 % P
            Z == grp.z
            A == FSub(X2, X1)
            BB == Mul2(A, A)
            C == FSub(Y2, Y1)
            D == Mul2(C, C)
            E == Mul2(X1, BB)
            F == Mul2(X2, BB)
            X3 == FSub(FSub(D, E), F)
            Y3 == FSub(Mul2(C, FSub(E, X3)), Mul2(Y1, FSub(F, E)))
            dbl == doubleJacobian(X1, Y1, Z)
        IN  /\ AffineOf(grp.x3, grp.y3, grp.z3) =
                  RefAdd(AffineOf(X1, Y1, Z), AffineOf(X2, Y2, Z))
            /\ X1 # X2 =>
                  /\ grp.x3 = X3
                  /\ grp.y3 = Y3
                  /\ grp.z3 = Mul2(Z, A)
                  /\ grp.z3 % P # 0
            /\ (X1 = X2 /\ Y1 = Y2) =>
                  <<grp.x3, grp.y3, grp.z3>> = <<dbl.x3, dbl.y3, dbl.z3>>
            /\ (X1 = X2 /\ Y1 # Y2) =>
                  <<grp.x3, grp.y3, grp.z3>> = <<0, 0, 0>>

\* A chord addition has returned for operands passed unreduced, with a
\* shared Z other than 1
ZAddChordWitness ==
    /\ grp.called
    /\ grp.path = "eqZchord"
    /\ grp.z # 1
    /\ grp.unreduced
    /\ grp.x1 < P /\ grp.y2 < P
    /\ grp.z3 % P # 0
    /\ AffineOf(grp.x3, grp.y3, grp.z3) # Infinity

-----------------------------------------------------------------------------
(* SpecConvert: a caller that owns two big integers x, y and a Jacobian    *)
(* triple (X, Y, Z) of field values calls bigAffineToField(x, y) and       *)
(* fieldJacobianToBigAffine(X, Y, Z).  Results are tagged with where they  *)
(* live: "fresh" for a value the callee allocates, "arg" for an argument.  *)

\* The triples passed: a point lifted to a Z of ZValues or to Z = 0,
\* canonical or (mag = 1) with X and Y holding their value plus P
InitConvert ==
    /\ grp \in {[x |-> p[1], y |-> p[2], x0 |-> p[1], y0 |-> p[2],
                 X |-> JacobianOf(q, z)[1] + mag * P,
                 Y |-> JacobianOf(q, z)[2] + mag * P,
                 Z |-> z,
                 X0 |-> JacobianOf(q, z)[1] + mag * P,
                 Y0 |-> JacobianOf(q, z)[2] + mag * P,
                 Z0 |-> z,
                 lifted |-> FALSE, field |-> << >>, fieldLoc |-> "",
                 lowered |-> FALSE, affine |-> << >>, affineLoc |-> ""] :
                    p \in CurvePoints \cup {Infinity}, q \in CurvePoints,
                    z \in ZValues \cup {0}, mag \in {0, 1}}
    /\ naf = Idle /\ sm = Idle /\ lin = Idle
    /\ once = Idle /\ gor = Idle /\ shared = Idle

\* fx, fy := curve.bigAffineToField(x, y): lines 78-80 allocate x3, y3 and
\* read x and y through Bytes(), which copies; x and y are not written
CallBigAffineToField ==
    /\ ~grp.lifted
    /\ \E f \in {bigAffineToField(grp.x, grp.y)} :
          grp' = [grp EXCEPT !.lifted = TRUE, !.field = f, !.fieldLoc = "fresh"]
    /\ UNCHANGED <<naf, sm, lin, once, gor, shared>>

\* x3, y3 := curve.fieldJacobianToBigAffine(X, Y, Z): lines 96-102 write
\* through the pointers x, y, z; line 105 allocates the results
CallFieldJacobianToBigAffine ==
    /\ ~grp.lowered
    /\ \E r \in {fieldJacobianToBigAffine(grp.X, grp.Y, grp.Z)} :
          grp' = [grp EXCEPT !.lowered = TRUE, !.affine = <<r.x3, r.y3>>,
                             !.affineLoc = "fresh",
                             !.X = r.x, !.Y = r.y, !.Z = r.z]
    /\ UNCHANGED <<naf, sm, lin, once, gor, shared>>

NextConvert == CallBigAffineToField \/ CallFieldJacobianToBigAffine

SpecConvert == InitConvert /\ [][NextConvert]_vars

\* C12 as the specification states it: neither conversion has a side effect
\* on its arguments; bigAffineToField leaves x, y unchanged and
\* fieldJacobianToBigAffine leaves the triple (X, Y, Z) unchanged, each
\* returning only freshly allocated values.
ConversionsLeaveArguments ==
    /\ grp.lifted =>
          /\ grp.fieldLoc = "fresh"
          /\ <<grp.x, grp.y>> = <<grp.x0, grp.y0>>
    /\ grp.lowered =>
          /\ grp.affineLoc = "fresh"
          /\ <<grp.X, grp.Y, grp.Z>> = <<grp.X0, grp.Y0, grp.Z0>>

\* C12, amended: both conversions return only freshly allocated values, and
\* bigAffineToField leaves x, y unchanged;
\* fieldJacobianToBigAffine overwrites the triple passed to it with the
\* canonical affine coordinates X/Z^2, Y/Z^3 (0, 0 when Z is 0) and Z = 1,
\* and returns the same two coordinates.
ConversionNormalisesTriple ==
    /\ grp.lifted =>
          /\ grp.fieldLoc = "fresh"
          /\ <<grp.x, grp.y>> = <<grp.x0, grp.y0>>
    /\ grp.lowered =>
          /\ grp.affineLoc = "fresh"
          /\ grp.affine = <<grp.X, grp.Y>>
          /\ grp.Z = 1
          /\ grp.X < P /\ grp.Y < P
          /\ IF grp.Z0 % P = 0
             THEN grp.X = 0 /\ grp.Y = 0
             ELSE /\ Mul2(grp.X, SquareVal(grp.Z0)) = grp.X0 % P
                  /\ Mul2(grp.Y, Mul2(SquareVal(grp.Z0), grp.Z0)) = grp.Y0 % P

\* Both conversions have returned, the second for a triple with Z other
\* than 0 and 1, which it has overwritten
ConversionWitness ==
    /\ grp.lifted
    /\ grp.lowered
    /\ grp.Z0 \notin {0, 1}
    /\ grp.Z = 1
    /\ <<grp.X, grp.Y>> # <<grp.X0, grp.Y0>>
    /\ <<grp.x, grp.y>> # Infinity
    /\ grp.field = <<grp.x, grp.y>>

=============================================================================
